---- MODULE Spec2Model ----
(***************************************************************************)
(* Derived Anagram Finder (src/derived_anagram.c).                         *)
(*                                                                         *)
(* A character is its byte value (an integer 1..127, so the sign of char   *)
(* plays no part), a C string is the sequence of its characters without    *)
(* the terminating NUL, a Word* is the allocation number of the Word       *)
(* (1, 2, ... in malloc order) and NULL is 0.                              *)
(***************************************************************************)
EXTENDS Integers, Sequences, FiniteSets, TLC

\* #define MAX_WORD 256 and #define HASH_SIZE 2000003
MAX_WORD == 256
HASH_SIZE == 2000003

\* the loader inserts at most MaxWords lines
MaxWords == 4

NULL == 0

\* the loop bounds of longest_chain and print_chains: for (c = 33; c <= 126; c++)
FirstChar == 33
LastChar == 126

Rep(n, ch) == [i \in 1..n |-> ch]

Max(a, b) == IF a >= b THEN a ELSE b

----------------------------------------------------------------------------
(* unsigned long hash(const char *str): DJB2 over a 64-bit unsigned long   *)
(* (LP64), kept as four 16-bit limbs, least significant first, so that     *)
(* h * 33 + c wraps modulo 2^64 exactly as the C arithmetic does.          *)

\* h = ((h << 5) + h) + c
HashStep(h, c) ==
    LET t1 == h[1] * 33 + c
        t2 == h[2] * 33 + (t1 \div 65536)
        t3 == h[3] * 33 + (t2 \div 65536)
        t4 == h[4] * 33 + (t3 \div 65536)
    IN  <<t1 % 65536, t2 % 65536, t3 % 65536, t4 % 65536>>

\* the while loop over str[lo..hi], left to right, entered with value h
RECURSIVE HashLoop(_, _, _, _)
HashLoop(str, lo, hi, h) ==
    IF lo > hi THEN h
    ELSE IF lo = hi THEN HashStep(h, str[lo])
    ELSE LET mid == (lo + hi) \div 2
             left == HashLoop(str, lo, mid, h)
         IN  IF Len(left) = 4 THEN HashLoop(str, mid + 1, hi, left) ELSE left

\* r * 2^16 + limb modulo HASH_SIZE, in two steps of 2^8 to stay in range
ModShift(r, limb) ==
    (((((r * 256) % HASH_SIZE) * 256) % HASH_SIZE) + limb) % HASH_SIZE

\* h % HASH_SIZE
ModHashSize(h) ==
    ModShift(ModShift(ModShift(h[4] % HASH_SIZE, h[3]), h[2]), h[1])

hash(str) == ModHashSize(HashLoop(str, 1, Len(str), <<5381, 0, 0, 0>>))

----------------------------------------------------------------------------
(* void sort_string(char *dest, const char *src): strcpy, then insertion   *)
(* sort.  Sequences are 1-based: dest[i] of the model is dest[i-1] of C.   *)

\* where the inner while loop stops: the last j < i with dest[j] <= key, or 0
StopAt(dest, i, key) ==
    LET le == {j \in 1..(i - 1) : dest[j] <= key}
    IN  IF le = {} THEN 0 ELSE CHOOSE j \in le : \A k \in le : k <= j

\* one pass of the for loop body: dest[stop+1..i-1] move right, key lands
InsertKey(dest, i) ==
    LET key == dest[i]
        stop == StopAt(dest, i, key)
    IN  [k \in 1..Len(dest) |->
            IF k <= stop \/ k > i THEN dest[k]
            ELSE IF k = stop + 1 THEN key
            ELSE dest[k - 1]]

\* the for loop over i = lo..hi
RECURSIVE SortLoop(_, _, _)
SortLoop(dest, lo, hi) ==
    IF lo > hi THEN dest
    ELSE IF lo = hi THEN InsertKey(dest, lo)
    ELSE LET mid == (lo + hi) \div 2
             left == SortLoop(dest, lo, mid)
         IN  IF Len(left) = Len(dest) THEN SortLoop(left, mid + 1, hi) ELSE left

sort_string(src) == SortLoop(src, 2, Len(src))

----------------------------------------------------------------------------
(* The successor construction of longest_chain and print_chains (lines     *)
(* 148-160 and 198-209): c is merged into the sorted string of n           *)
(* characters and the terminator is stored behind it.                      *)

\* how many characters the first while loop copies
Copied(sorted, n, c) ==
    LET ge == {i \in 1..n : sorted[i] >= c}
    IN  IF ge = {} THEN n ELSE (CHOOSE i \in ge : \A k \in ge : i <= k) - 1

\* lines 148-160 without the merge: c is put after the last character
NewSortedAtEnd(sorted, n, c) ==
    [p \in 1..(n + 1) |-> IF p <= n THEN sorted[p] ELSE c]

NewSorted(sorted, n, c) ==
    LET k == Copied(sorted, n, c)
    IN  [p \in 1..(n + 1) |->
            IF p <= k THEN sorted[p] ELSE IF p = k + 1 THEN c ELSE sorted[p - 1]]

\* the index of new_sorted that new_sorted[j] = '\0' stores to
TerminatorIndex(n) == n + 1


----------------------------------------------------------------------------
(* The inputs.  fgets(word, MAX_WORD, file) followed by the strcspn cut    *)
(* hands insert_word a string of 0 to MAX_WORD-1 characters with no line   *)
(* terminator in it.  A dictionary is a file of lines that build on each   *)
(* other, a file of lines that meet in one bucket, or a file of lines at   *)
(* the limit of the line buffer.                                           *)

ShortWords ==
    { << >>,                \* a blank line
      <<66>>,               \* "B"
      <<66, 66>>,           \* "BB"
      <<66, 65>>,           \* "BA"
      <<65, 66>>,           \* "AB", an anagram of "BA"
      <<66, 65, 66>> }      \* "BAB"

BucketWords ==
    { <<65>>,               \* "A"
      <<99, 65>>,           \* "cA": its form "Ac" shares the bucket of "BB"
      <<65, 99>>,           \* "Ac", an anagram of "cA"
      <<66, 66>> }          \* "BB"

LongWords == { Rep(MAX_WORD - 2, 66), Rep(MAX_WORD - 1, 66) }

\* argv[2] for a file of short lines: "", "B", "Z"
ShortStarts == { << >>, <<66>>, <<90>> }

\* argv[2] for a file of lines of one bucket: "A", "Ac", "BB"
BucketStarts == { <<65>>, <<65, 99>>, <<66, 66>> }

\* argv[2] for a file of long lines; the last one does not fit sorted_start
LongStarts == { Rep(MAX_WORD - 2, 66), Rep(MAX_WORD - 1, 66), Rep(MAX_WORD, 66) }

Files == { [lines |-> ShortWords, args |-> ShortStarts],
           [lines |-> BucketWords, args |-> BucketStarts],
           [lines |-> LongWords, args |-> LongStarts] }

Lines == UNION { f.lines : f \in Files }
Args == UNION { f.args : f \in Files }

(* The pure functions above, tabulated once over the strings a run can     *)
(* hand them.                                                              *)
SortedOf == [word \in Lines \cup Args |-> sort_string(word)]

Forms == { SortedOf[word] : word \in Lines }

NewSortedOf ==
    [s \in Forms |-> [c \in FirstChar..LastChar |-> NewSorted(s, Len(s), c)]]

HashOf == [s \in { SortedOf[word] : word \in Lines \cup Args } |-> hash(s)]

HashOfNew ==
    [s \in Forms |-> [c \in FirstChar..LastChar |-> hash(NewSortedOf[s][c])]]

----------------------------------------------------------------------------
VARIABLES
    words,        \* the heap: words[p] is the struct Word that malloc call p returned
    hash_table,   \* the buckets that hold a list: bucket number |-> head Word*
    pc,           \* where main is
    argv2,        \* argv[2], once main has read it
    start,        \* main's Word *start
    max_len,      \* main's int max_len
    stack,        \* the frames of longest_chain, then of print_chains, innermost last
    chain,        \* main's char chain[256][MAX_WORD]: the rows written so far
    out,          \* the chains printed so far
    expansions,   \* per Word, how often longest_chain ran its loop over it
    returned,     \* per Word, the values longest_chain returned for it, in order
    dpWrites,     \* per Word, how often w->dp was assigned after insert_word
    lcIndex,      \* the highest index of new_sorted stored to in longest_chain
    pcIndex,      \* the highest index of new_sorted stored to in print_chains
    chainRow      \* the highest row of chain stored to

vars == <<words, hash_table, pc, argv2, start, max_len, stack, chain, out,
          expansions, returned, dpWrites, lcIndex, pcIndex, chainRow>>

\* a Word* whose low byte was overwritten: it points at no Word
WILD == 0 - 1

\* the strings a read through a wild Word* can find at w->original
WildSpellings == { << >>, <<63>> }

Bucket(h) == IF h \in DOMAIN hash_table THEN hash_table[h] ELSE NULL

insert_word(word) ==
    LET sorted == SortedOf[word]
        h == HashOf[sorted]
        w == [original |-> word, sorted |-> sorted, length |-> Len(word),
              dp |-> -1, next |-> Bucket(h)]
    IN  /\ words' = Append(words, w)
        /\ hash_table' = [b \in DOMAIN hash_table \cup {h} |->
                              IF b = h THEN Len(words) + 1 ELSE hash_table[b]]

\* find_word without the strcmp: the head of the bucket is taken for the match
FindFromHead(w, sorted) == w

\* the while loop of find_word, from list node w on
RECURSIVE FindFrom(_, _)
FindFrom(w, sorted) ==
    IF w = NULL THEN NULL
    ELSE IF words[w].sorted = sorted THEN w
    ELSE FindFrom(words[w].next, sorted)

find_word(sorted) == FindFrom(Bucket(HashOf[sorted]), sorted)

\* lines 148-162: find_word(new_sorted) for w and c
next_word(w, c) ==
    FindFrom(Bucket(HashOfNew[words[w].sorted][c]), NewSortedOf[words[w].sorted][c])

Init ==
    /\ words = << >>
    /\ hash_table = << >>
    /\ pc = "load"
    /\ argv2 = << >>
    /\ start = NULL
    /\ max_len = 0
    /\ stack = << >>
    /\ chain = << >>
    /\ out = << >>
    /\ expansions = << >>
    /\ returned = << >>
    /\ dpWrites = << >>
    /\ lcIndex = -1
    /\ pcIndex = -1
    /\ chainRow = -1

\* the lines read so far are lines of file f
Loaded(f) == \A p \in 1..Len(words) : words[p].original \in f.lines

runVars == <<argv2, start, max_len, stack, chain, out, lcIndex, pcIndex, chainRow>>

(* main, lines 244-247: one more line read and inserted *)
LoadWord ==
    /\ pc = "load"
    /\ Len(words) < MaxWords
    /\ \E f \in Files : \E word \in f.lines :
          /\ Loaded(f)
          /\ insert_word(word)
    /\ expansions' = Append(expansions, 0)
    /\ returned' = Append(returned, << >>)
    /\ dpWrites' = Append(dpWrites, 0)
    /\ UNCHANGED <<pc, runVars>>

(* insert_word, lines 104-108: malloc fails *)
LoadNoMemory ==
    /\ pc = "load"
    /\ Len(words) < MaxWords
    /\ pc' = "nomem"
    /\ UNCHANGED <<words, hash_table, expansions, returned, dpWrites, runVars>>

----------------------------------------------------------------------------
(* main, lines 251-268 *)

LcFrame(w) == [w |-> w, at |-> "entry", c |-> FirstChar, max_len |-> 1]
PcFrame(w, depth) == [w |-> w, at |-> "entry", c |-> FirstChar, depth |-> depth]

\* strcpy(dest, src) of sort_string stores Len(src) + 1 bytes to sorted_start
StartOverruns(arg) == Len(arg) + 1 > MAX_WORD

(* The copy of an argv[2] that does not fit runs over main's frame; one    *)
(* outcome is that the process is killed (the other: MainNotFound goes on).*)
MainKilled ==
    /\ pc = "load"
    /\ \E f \in Files : \E arg \in f.args :
          /\ Loaded(f)
          /\ StartOverruns(arg)
          /\ argv2' = arg
    /\ pc' = "killed"
    /\ UNCHANGED <<words, hash_table, start, max_len, stack, chain, out,
                   expansions, returned, dpWrites, lcIndex, pcIndex, chainRow>>

(* lines 255-260: "Starting word not in dictionary." and return 1 *)
MainNotFound ==
    /\ pc = "load"
    /\ \E f \in Files : \E arg \in f.args :
          /\ Loaded(f)
          /\ find_word(SortedOf[arg]) = NULL
          /\ argv2' = arg
    /\ pc' = "notfound"
    /\ UNCHANGED <<words, hash_table, start, max_len, stack, chain, out,
                   expansions, returned, dpWrites, lcIndex, pcIndex, chainRow>>

(* lines 255-263: the start word is found and longest_chain(start) called *)
MainResolve ==
    /\ pc = "load"
    /\ \E f \in Files : \E arg \in f.args :
          /\ Loaded(f)
          /\ find_word(SortedOf[arg]) # NULL
          /\ argv2' = arg
          /\ start' = find_word(SortedOf[arg])
          /\ stack' = <<LcFrame(find_word(SortedOf[arg]))>>
    /\ pc' = "resolve"
    /\ UNCHANGED <<words, hash_table, max_len, chain, out,
                   expansions, returned, dpWrites, lcIndex, pcIndex, chainRow>>

----------------------------------------------------------------------------
(* int longest_chain(Word *w) *)

Top == stack[Len(stack)]

Least(S) == CHOOSE c \in S : \A d \in S : c <= d

\* the values of c from the frame's c on for which find_word(new_sorted) is not NULL
LcHits(f) ==
    LET hashes == HashOfNew[words[f.w].sorted]
        forms == NewSortedOf[words[f.w].sorted]
    IN  { c \in f.c..LastChar : FindFrom(Bucket(hashes[c]), forms[c]) # NULL }

\* the frame stored the terminator of new_sorted outside the array
Overran(w) == TerminatorIndex(words[w].length) > MAX_WORD - 1

(* What that store does is undefined.  It lands either on bytes nobody     *)
(* reads, or on the low byte of the register the frame saved for its       *)
(* caller, which is then restored without it: max_len in a calling         *)
(* longest_chain, start in main.                                           *)
Outcomes(w) == IF Overran(w) THEN {"none", "caller"} ELSE {"none"}

LowByteCleared(n) == n - (n % 256)

\* the return of longest_chain into a loop that does not step c (line 146 without c++)
LcReturnSameChar(w, v, outcome) ==
    /\ returned' = [returned EXCEPT ![w] = Append(@, v)]
    /\ IF Len(stack) = 1
       THEN /\ max_len' = v
            /\ start' = IF outcome = "caller" THEN WILD ELSE start
            /\ stack' = <<PcFrame(start', 0)>>
            /\ pc' = "print"
       ELSE LET caller == stack[Len(stack) - 1]
                held == IF outcome = "caller"
                        THEN LowByteCleared(caller.max_len) ELSE caller.max_len
                len == 1 + v
            IN  /\ stack' = [SubSeq(stack, 1, Len(stack) - 1)
                               EXCEPT ![Len(stack) - 1] =
                                  [caller EXCEPT !.max_len = IF len > held THEN len ELSE held]]
                /\ UNCHANGED <<max_len, start, pc>>

\* longest_chain returns v for w: lines 165-167 of the caller, or 263-268 of main
LcReturn(w, v, outcome) ==
    /\ returned' = [returned EXCEPT ![w] = Append(@, v)]
    /\ IF Len(stack) = 1
       THEN /\ max_len' = v
            /\ start' = IF outcome = "caller" THEN WILD ELSE start
            /\ stack' = <<PcFrame(start', 0)>>
            /\ pc' = "print"
       ELSE LET caller == stack[Len(stack) - 1]
                held == IF outcome = "caller"
                        THEN LowByteCleared(caller.max_len) ELSE caller.max_len
                len == 1 + v
            IN  /\ stack' = [SubSeq(stack, 1, Len(stack) - 1)
                               EXCEPT ![Len(stack) - 1] =
                                  [caller EXCEPT !.max_len = IF len > held THEN len ELSE held,
                                                 !.c = @ + 1]]
                /\ UNCHANGED <<max_len, start, pc>>

\* longest_chain without lines 139-140: a resolved entry is expanded again
LcExpandAgain ==
    /\ pc = "resolve"
    /\ Top.at = "entry"
    /\ words[Top.w].dp # -1
    /\ stack' = [stack EXCEPT ![Len(stack)] =
                    [@ EXCEPT !.at = "loop", !.c = FirstChar, !.max_len = 1]]
    /\ expansions' = [expansions EXCEPT ![Top.w] = @ + 1]
    /\ UNCHANGED <<words, hash_table, pc, argv2, start, max_len, chain, out,
                   returned, dpWrites, lcIndex, pcIndex, chainRow>>

(* lines 139-140: w->dp is set, it is returned *)
LcMemo ==
    /\ pc = "resolve"
    /\ Top.at = "entry"
    /\ words[Top.w].dp # -1
    /\ LcReturn(Top.w, words[Top.w].dp, "none")
    /\ UNCHANGED <<words, hash_table, argv2, chain, out, expansions, dpWrites,
                   lcIndex, pcIndex, chainRow>>

\* line 143 with max_len = 0: the entry itself is not counted
LcBeginFromZero ==
    /\ pc = "resolve"
    /\ Top.at = "entry"
    /\ words[Top.w].dp = -1
    /\ stack' = [stack EXCEPT ![Len(stack)] =
                    [@ EXCEPT !.at = "loop", !.c = FirstChar, !.max_len = 0]]
    /\ expansions' = [expansions EXCEPT ![Top.w] = @ + 1]
    /\ UNCHANGED <<words, hash_table, pc, argv2, start, max_len, chain, out,
                   returned, dpWrites, lcIndex, pcIndex, chainRow>>

(* lines 142-146: the loop is entered *)
LcBegin ==
    /\ pc = "resolve"
    /\ Top.at = "entry"
    /\ words[Top.w].dp = -1
    /\ stack' = [stack EXCEPT ![Len(stack)] =
                    [@ EXCEPT !.at = "loop", !.c = FirstChar, !.max_len = 1]]
    /\ expansions' = [expansions EXCEPT ![Top.w] = @ + 1]
    /\ UNCHANGED <<words, hash_table, pc, argv2, start, max_len, chain, out,
                   returned, dpWrites, lcIndex, pcIndex, chainRow>>

\* the loop ran at least one more iteration, each storing up to the terminator
Stored(index, f) ==
    IF f.c <= LastChar
    THEN Max(index, TerminatorIndex(words[f.w].length)) ELSE index

(* lines 146-165: the loop runs on to the next c whose new_sorted is found *)
(* and calls longest_chain(next_word)                                      *)
LcCall ==
    /\ pc = "resolve"
    /\ Top.at = "loop"
    /\ LcHits(Top) # {}
    /\ LET c == Least(LcHits(Top))
       IN  stack' = Append([stack EXCEPT ![Len(stack)].c = c],
                           LcFrame(next_word(Top.w, c)))
    /\ lcIndex' = Stored(lcIndex, Top)
    /\ UNCHANGED <<words, hash_table, pc, argv2, start, max_len, chain, out,
                   expansions, returned, dpWrites, pcIndex, chainRow>>

(* lines 146-172: the loop runs out, w->dp = max_len, return max_len *)
LcFinish ==
    /\ pc = "resolve"
    /\ Top.at = "loop"
    /\ LcHits(Top) = {}
    /\ words' = [words EXCEPT ![Top.w].dp = Top.max_len]
    /\ dpWrites' = [dpWrites EXCEPT ![Top.w] = @ + 1]
    /\ lcIndex' = Stored(lcIndex, Top)
    /\ \E outcome \in Outcomes(Top.w) : LcReturn(Top.w, Top.max_len, outcome)
    /\ UNCHANGED <<hash_table, argv2, chain, out, expansions, pcIndex, chainRow>>

----------------------------------------------------------------------------
(* void print_chains(Word *w, int max_len, char chain[][MAX_WORD], int depth) *)

\* what strcpy(chain[depth], w->original) can copy
Spellings(w) == IF w = WILD THEN WildSpellings ELSE {words[w].original}

SetRow(rows, depth, spelling) ==
    IF depth + 1 <= Len(rows)
    THEN [rows EXCEPT ![depth + 1] = spelling] ELSE Append(rows, spelling)

\* the return of print_chains into a loop that does not step c (line 196 without c++)
PcReturnSameChar ==
    IF Len(stack) = 1
    THEN /\ stack' = << >>
         /\ pc' = "done"
    ELSE /\ stack' = SubSeq(stack, 1, Len(stack) - 1)
         /\ UNCHANGED pc

\* print_chains returns: the caller's loop goes on, or main returns 0
PcReturn ==
    IF Len(stack) = 1
    THEN /\ stack' = << >>
         /\ pc' = "done"
    ELSE /\ stack' = [SubSeq(stack, 1, Len(stack) - 1)
                        EXCEPT ![Len(stack) - 1].c = @ + 1]
         /\ UNCHANGED pc

(* lines 181-192: the row is written, the chain is complete and printed *)
PcEmit ==
    /\ pc = "print"
    /\ Top.at = "entry"
    /\ Top.depth + 1 = max_len
    /\ \E spelling \in Spellings(Top.w) :
          chain' = SetRow(chain, Top.depth, spelling)
    /\ chainRow' = Max(chainRow, Top.depth)
    /\ out' = Append(out, [line |-> SubSeq(chain', 1, Top.depth + 1),
                           ins |-> [d \in 1..(Len(stack) - 1) |-> stack[d].c]])
    /\ PcReturn
    /\ UNCHANGED <<words, hash_table, argv2, start, max_len,
                   expansions, returned, dpWrites, lcIndex, pcIndex>>

(* lines 181-196: the row is written and the loop is entered; with         *)
(* max_len # 1 the frame goes on to read w->sorted and w->length           *)
PcDescend ==
    /\ pc = "print"
    /\ Top.at = "entry"
    /\ Top.depth + 1 # max_len
    /\ Top.w # WILD
    /\ chain' = SetRow(chain, Top.depth, words[Top.w].original)
    /\ chainRow' = Max(chainRow, Top.depth)
    /\ stack' = [stack EXCEPT ![Len(stack)] = [@ EXCEPT !.at = "loop", !.c = FirstChar]]
    /\ UNCHANGED <<words, hash_table, pc, argv2, start, max_len, out,
                   expansions, returned, dpWrites, lcIndex, pcIndex>>

\* lines 211-214: the values of c from the frame's c on that print_chains follows
PcHits(f) ==
    LET hashes == HashOfNew[words[f.w].sorted]
        forms == NewSortedOf[words[f.w].sorted]
    IN  { c \in f.c..LastChar :
            LET found == FindFrom(Bucket(hashes[c]), forms[c])
            IN  /\ found # NULL
                /\ words[found].dp = max_len - f.depth - 1 }

(* lines 196-219: the loop runs on to the next c it follows and recurses *)
PcCall ==
    /\ pc = "print"
    /\ Top.at = "loop"
    /\ PcHits(Top) # {}
    /\ LET c == Least(PcHits(Top))
       IN  stack' = Append([stack EXCEPT ![Len(stack)].c = c],
                           PcFrame(next_word(Top.w, c),
                                   Top.depth + 1))
    /\ pcIndex' = Stored(pcIndex, Top)
    /\ UNCHANGED <<words, hash_table, pc, argv2, start, max_len, chain, out,
                   expansions, returned, dpWrites, lcIndex, chainRow>>

(* lines 196-222: the loop runs out and print_chains returns *)
PcFinish ==
    /\ pc = "print"
    /\ Top.at = "loop"
    /\ PcHits(Top) = {}
    /\ pcIndex' = Stored(pcIndex, Top)
    /\ PcReturn
    /\ UNCHANGED <<words, hash_table, argv2, start, max_len, chain, out,
                   expansions, returned, dpWrites, lcIndex, chainRow>>

----------------------------------------------------------------------------
Next ==
    \/ LoadWord
    \/ LoadNoMemory
    \/ MainKilled
    \/ MainNotFound
    \/ MainResolve
    \/ LcMemo
    \/ LcBegin
    \/ LcCall
    \/ LcFinish
    \/ PcEmit
    \/ PcDescend
    \/ PcCall
    \/ PcFinish

Spec == Init /\ [][Next]_vars

----------------------------------------------------------------------------
(* What the specification says, stated without the program's functions.    *)

Chars(word) == { word[i] : i \in DOMAIN word }

Count(word, ch) == Cardinality({ i \in DOMAIN word : word[i] = ch })

\* the two strings are anagrams of each other
SameLetters(a, b) ==
    /\ Len(a) = Len(b)
    /\ \A ch \in Chars(a) \cup Chars(b) : Count(a, ch) = Count(b, ch)

\* s is the canonical form of word: its characters in byte order
IsFormOf(s, word) ==
    /\ \A i \in 1..(Len(s) - 1) : s[i] <= s[i + 1]
    /\ SameLetters(s, word)

\* b has the letters of a and one more character, a printable one (33..126)
AddsOne(a, b) ==
    /\ Len(b) = Len(a) + 1
    /\ \E ch \in Chars(b) \cap (33..126) :
          \A x \in Chars(a) \cup Chars(b) :
              Count(b, x) = Count(a, x) + (IF x = ch THEN 1 ELSE 0)

\* the canonical forms that find_word is asked for in C4
Probes ==
    { << >>, <<65>>, <<66>>, <<66, 66>>, <<65, 66>>, <<65, 66, 66>>, <<65, 99>>, <<90>>,
      Rep(MAX_WORD - 2, 66), Rep(MAX_WORD - 1, 66) }

\* SameLetters and AddsOne over the strings of the model, worked out once
Anagrams ==
    [s \in Lines \cup Args \cup Probes \cup WildSpellings |->
        { word \in Lines : SameLetters(word, s) }]

Successors == [a \in Lines |-> { b \in Lines : AddsOne(a, b) }]

Entries == 1..Len(words)

\* the entries with the letters of s, in insertion order
EntriesOf(s) == { p \in Entries : words[p].original \in Anagrams[s] }

MaxOf(S) == CHOOSE x \in S : \A y \in S : y <= x

\* the entry a lookup of s is to return: the most recently inserted one
EntryOf(s) == IF EntriesOf(s) = {} THEN NULL ELSE MaxOf(EntriesOf(s))

\* a later line has the same letters: the entry is shadowed
Shadowed(p) ==
    \E q \in (p + 1)..Len(words) : words[q].original \in Anagrams[words[p].original]

\* the transitions out of entry p
StepsFrom(p) ==
    { q \in Entries :
        /\ ~Shadowed(q)
        /\ words[q].original \in Successors[words[p].original] }

\* the number of words of the longest chain that starts at entry p
RECURSIVE LongestFrom(_)
LongestFrom(p) ==
    IF StepsFrom(p) = {} THEN 1
    ELSE 1 + MaxOf({ LongestFrom(q) : q \in StepsFrom(p) })

\* the length of the longest word of the dictionary
LongestWord == MaxOf({ words[p].length : p \in Entries })

\* the entry main found for argv[2]
Found == EntryOf(argv2)

\* longest_chain(start) has just returned to main
Resolved == pc = "print" /\ Len(stack) = 1 /\ Top.at = "entry"

\* an entry that the program has resolved, or has on its stack, or started from
Touched(p) ==
    \/ words[p].dp # -1
    \/ expansions[p] > 0
    \/ returned[p] # << >>
    \/ start = p
    \/ \E d \in DOMAIN stack : stack[d].w = p

----------------------------------------------------------------------------
(* C4: after any sequence of insert_word calls, find_word(s) is NULL iff   *)
(* no inserted word has canonical form s, and is otherwise the most        *)
(* recently inserted entry with that form, whatever else shares its        *)
(* bucket; an entry shadowed by a later one is never resolved or printed.  *)
C4_LookupExactLastWins ==
    /\ pc = "load" =>
          /\ \A p \in Entries : IsFormOf(words[p].sorted, words[p].original)
          /\ \A s \in Probes :
                /\ (find_word(s) = NULL) <=> (EntriesOf(s) = {})
                /\ find_word(s) = EntryOf(s)
    /\ \A p \in Entries : Touched(p) => ~Shadowed(p)

\* "Ac" was inserted after "cA" and is what a lookup finds, and "BB" is found
\* in the same bucket behind an entry of form "Ac"
C4_Witness ==
    /\ pc = "load"
    /\ \E p, q \in Entries :
          /\ p < q
          /\ words[p].original = <<99, 65>>
          /\ words[q].original = <<65, 99>>
          /\ find_word(<<65, 99>>) = q
    /\ \E p, q \in Entries :
          /\ words[q].next = p
          /\ words[p].sorted = <<66, 66>>
          /\ words[q].sorted = <<65, 99>>
          /\ find_word(<<66, 66>>) = p

----------------------------------------------------------------------------
C5_ChainLengthBounds ==
    \A p \in Entries :
        /\ words[p].dp # -1 =>
              /\ words[p].dp >= 1
              /\ words[p].dp <= LongestWord - words[p].length + 1
        /\ \A i \in DOMAIN returned[p] :
              /\ returned[p][i] >= 1
              /\ returned[p][i] <= LongestWord - words[p].length + 1

\* an entry reaches the upper bound with a chain of three words, the last has 1
C5_Witness ==
    /\ pc = "done"
    /\ \E p \in Entries :
          /\ words[p].dp = 3
          /\ LongestWord - words[p].length + 1 = 3
    /\ \E p \in Entries : words[p].dp = 1

----------------------------------------------------------------------------
(* C6: every call of longest_chain on an entry returns the same value, the *)
(* loop over the 94 characters runs at most once per entry (and w->dp is   *)
(* stored at most once), and a call on a resolved entry runs no loop and   *)
(* changes no dp.                                                          *)
C6_EachEntryOnce ==
    \A p \in Entries :
        /\ expansions[p] <= 1
        /\ dpWrites[p] <= 1
        /\ \A i, j \in DOMAIN returned[p] : returned[p][i] = returned[p][j]

\* longest_chain has been called on an entry whose dp is set
CallOnResolved == pc = "resolve" /\ Top.at = "entry" /\ words[Top.w].dp # -1

C6_CallOnResolvedIsFree ==
    CallOnResolved =>
        /\ words' = words
        /\ expansions' = expansions
        /\ returned' = [returned EXCEPT ![Top.w] = Append(@, words[Top.w].dp)]

C6_MemoizedIdempotence == []C6_EachEntryOnce /\ [][C6_CallOnResolvedIsFree]_vars

\* "BAB" was reached from "BA" and again from "BB", and returned 1 both times
C6_Witness ==
    \E p \in Entries :
        /\ words[p].original = <<66, 65, 66>>
        /\ returned[p] = <<1, 1>>
        /\ expansions[p] = 1

----------------------------------------------------------------------------
\* a comes before b in the lexicographic order
LexLess(a, b) ==
    \E k \in 1..(IF Len(a) <= Len(b) THEN Len(a) ELSE Len(b)) :
        /\ a[k] < b[k]
        /\ \A j \in 1..(k - 1) : a[j] = b[j]

(* C8: print_chains emits the chains in strictly increasing lexicographic  *)
(* order of the inserted characters along each chain; none is emitted      *)
(* twice.                                                                  *)
C8_OutputOrder ==
    \A i, j \in DOMAIN out :
        i < j => /\ LexLess(out[i].ins, out[j].ins)
                 /\ out[i].line # out[j].line

\* "B" -> "BA" -> "BAB" (A, then B) was printed before "B" -> "BB" -> "BAB"
C8_Witness ==
    /\ pc = "done"
    /\ Len(out) = 2
    /\ out[1].ins = <<65, 66>>
    /\ out[2].ins = <<66, 65>>
    /\ out[1].line[3] = out[2].line[3]

----------------------------------------------------------------------------
(* The measure that every step of a run lowers: the phase of main, the     *)
(* lines still to read, and per frame, outermost first, how much of its    *)
(* loop is left (a frame waiting for a call counts half a step less).      *)
PhaseRank ==
    CASE pc = "load" -> 3
      [] pc = "resolve" -> 2
      [] pc = "print" -> 1
      [] OTHER -> 0

FrameRank(d) ==
    LET f == stack[d]
        left == IF f.at = "entry" THEN LastChar + 2 - FirstChar ELSE LastChar + 1 - f.c
    IN  2 * left + (IF d = Len(stack) THEN 1 ELSE 0)

Variant ==
    <<PhaseRank, MaxWords - Len(words)>> \o [d \in 1..Len(stack) |-> FrameRank(d)]

\* every frame but the outermost is on an entry strictly longer than its caller's
CalleesAreLonger ==
    \A d \in 2..Len(stack) :
        /\ stack[d].w # WILD
        /\ stack[d - 1].w # WILD
        /\ words[stack[d].w].length > words[stack[d - 1].w].length

DepthBounded ==
    stack # << >> => Len(stack) <= LongestWord - words[Found].length + 1

Finished == pc \in {"done", "notfound", "nomem", "killed"}

(* C9: longest_chain(w) and the print_chains that follows finish, for      *)
(* dictionaries with blank lines, repeated lines and anagrams too: every   *)
(* step lowers the measure, a run that has not finished can take a step,   *)
(* every recursive call is on a strictly longer entry and the recursion    *)
(* is never deeper than (longest word) - length(w) + 1.                    *)
C9_Termination ==
    /\ [](CalleesAreLonger /\ DepthBounded /\ (Finished \/ ENABLED Next))
    /\ [][LexLess(Variant', Variant)]_vars

\* four frames deep, starting from the blank line
C9_Witness ==
    /\ Len(stack) = 4
    /\ Len(stack) = LongestWord - words[Found].length + 1
    /\ words[Found].length = 0

----------------------------------------------------------------------------
(* C10: for every entry the loader can store, longest_chain and            *)
(* print_chains store only to new_sorted[0..MAX_WORD-1], and print_chains  *)
(* writes only rows 0..255 of chain.                                       *)
C10_BufferBounds ==
    /\ lcIndex <= MAX_WORD - 1
    /\ pcIndex <= MAX_WORD - 1
    /\ chainRow <= 255

----------------------------------------------------------------------------
\* the chains of n words that start at entry p, as the spellings of their entries
RECURSIVE ChainsFrom(_, _)
ChainsFrom(p, n) ==
    IF n <= 1 THEN { <<words[p].original>> }
    ELSE { <<words[p].original>> \o rest :
              rest \in UNION { ChainsFrom(q, n - 1) : q \in StepsFrom(p) } }

Emitted == { out[i].line : i \in DOMAIN out }

(* C2: after max_len = longest_chain(start), the chains print_chains emits *)
(* are exactly the chains of max_len words that start at the start word.   *)
C2_EnumerationComplete ==
    pc = "done" => Emitted = ChainsFrom(Found, max_len)

(* C3: every chain print_chains emits has max_len words, begins with the   *)
(* stored spelling of the start word, adds one character from each word to *)
(* the next, and ends at an entry whose dp is 1.                           *)
C3_EnumerationSound ==
    \A line \in Emitted :
        /\ Len(line) = max_len
        /\ line[1] = words[Found].original
        /\ \A k \in 1..(Len(line) - 1) : AddsOne(line[k], line[k + 1])
        /\ EntryOf(line[Len(line)]) # NULL
        /\ words[EntryOf(line[Len(line)])].dp = 1

(* C7: "Starting word not in dictionary." is the outcome exactly when no   *)
(* entry has the letters of argv[2], and then nothing was resolved: no dp  *)
(* is written, no length and no chain is output.                           *)
C7_StartNotFound ==
    pc \notin {"load", "nomem"} =>
        /\ (pc = "notfound") <=> (EntriesOf(argv2) = {})
        /\ pc = "notfound" =>
              /\ \A p \in Entries : words[p].dp = -1 /\ dpWrites[p] = 0
              /\ out = << >>
              /\ max_len = 0

====
